---- MODULE Spec2Model ----
(***************************************************************************)
(* A model of dumpByString.py: main() resolves the selection file into     *)
(* collections_dict, creates the two run roots, and calls dump_database    *)
(* once per database; dump_database builds a mongodump command, runs it,   *)
(* and mirrors every *.metadata.json of the output tree into the mirror    *)
(* tree next to a synthetic empty .bson file.                              *)
(*                                                                         *)
(* Strings are sequences of characters (one-character strings, plus a few  *)
(* multi-character tokens such as "metadata" that the code never looks     *)
(* inside).  A path is a sequence of names; a name is a string.            *)
(***************************************************************************)
EXTENDS Naturals, Sequences, FiniteSets, TLC

TAB == "\t"
NL  == "\n"
SP  == " "
DOT == "."

\* The largest number of lines of a selection file.
MaxLines == 3

(***************************************************************************)
(* String functions of the Python runtime the code calls.                  *)
(***************************************************************************)
Whitespace == {TAB, NL, SP}

RECURSIVE lstrip(_)
lstrip(s) ==
    IF s # <<>> /\ Head(s) \in Whitespace THEN lstrip(Tail(s)) ELSE s

RECURSIVE rstrip(_)
rstrip(s) ==
    IF s # <<>> /\ s[Len(s)] \in Whitespace
    THEN rstrip(SubSeq(s, 1, Len(s) - 1))
    ELSE s

\* str.strip(): leading and trailing whitespace removed, tabs included.
strip(s) == rstrip(lstrip(s))

\* str.split(sep): the pieces between the separators, empty pieces kept.
RECURSIVE split_from(_, _, _)
split_from(s, sep, cur) ==
    IF s = <<>> THEN <<cur>>
    ELSE IF Head(s) = sep
         THEN <<cur>> \o split_from(Tail(s), sep, <<>>)
         ELSE split_from(Tail(s), sep, Append(cur, Head(s)))

split(s, sep) == split_from(s, sep, <<>>)

\* str.splitlines(): no line for an empty string, none after a final newline.
splitlines(s) ==
    IF s = <<>> THEN <<>>
    ELSE LET parts == split(s, NL)
         IN  IF s[Len(s)] = NL THEN SubSeq(parts, 1, Len(parts) - 1) ELSE parts

\* str.endswith(suffix)
endswith(s, suffix) ==
    /\ Len(s) >= Len(suffix)
    /\ SubSeq(s, Len(s) - Len(suffix) + 1, Len(s)) = suffix

\* os.path.splitext(name)[0]: the name without its last extension; a dot
\* that only dots precede starts no extension.
splitext_root(name) ==
    LET dots == {i \in 1..Len(name) :
                    /\ name[i] = DOT
                    /\ \E j \in 1..(i - 1) : name[j] # DOT}
    IN  IF dots = {} THEN name
        ELSE LET last == CHOOSE i \in dots : \A j \in dots : j <= i
             IN  SubSeq(name, 1, last - 1)

MetadataSuffix == <<DOT, "metadata", DOT, "json">>
BsonSuffix == <<DOT, "bson">>

(***************************************************************************)
(* Paths and the file system.  dirs is the set of directories that exist   *)
(* (the root <<>> always does); files maps each regular file's path to its *)
(* bytes.                                                                  *)
(***************************************************************************)
join(p, name) == Append(p, name)
dirname(p) == SubSeq(p, 1, Len(p) - 1)
basename(p) == p[Len(p)]
relpath(p, start) == SubSeq(p, Len(start) + 1, Len(p))
IsUnder(p, top) == Len(p) > Len(top) /\ SubSeq(p, 1, Len(top)) = top

\* os.mkdir in the place of os.makedirs: no ancestor is created.
makedirs_leaf_only(ds, p) == ds \cup {p}

\* os.makedirs(p, exist_ok=True): p and every missing ancestor.
makedirs(ds, p) == ds \cup {SubSeq(p, 1, k) : k \in 1..Len(p)}

\* bson.dumps({}): the five bytes of an empty document.
bson_dumps_empty == <<5, 0, 0, 0, 0>>

\* What the dump utility may leave in files: a metadata document, and a data
\* file of no document (zero bytes) or of one document.
MetaBytes == <<123, 125>>
DataBytes == {<<>>, <<8, 0, 0, 0, 10, 97, 0, 0>>}

\* OUTPUT_DIR of the configuration and the DATE of the run.
OUTPUT_DIR == <<"o">>
DATE == "20260101_000000"
output_root_dir == join(<<OUTPUT_DIR>>, <<"mongodump_", DATE>>)
mirror_root_dir == join(<<OUTPUT_DIR>>, <<"mongodump_", DATE, "_mirror">>)

(***************************************************************************)
(* The selection files of the model: up to MaxLines lines, joined by       *)
(* newlines, each drawn from SelectionLines.                               *)
(***************************************************************************)
SelectionLines ==
    { <<>>,
      <<"a", TAB, "x">>,
      <<"a", TAB, "y">>,
      <<"b", TAB>>,
      <<"a">>,
      <<"a", TAB, "x", TAB>> }

RECURSIVE JoinLines(_)
JoinLines(ls) ==
    IF ls = <<>> THEN <<>>
    ELSE IF Len(ls) = 1 THEN ls[1]
    ELSE ls[1] \o <<NL>> \o JoinLines(Tail(ls))

SelectionFiles ==
    UNION { {JoinLines(ls) : ls \in [1..n -> SelectionLines]} : n \in 0..MaxLines }

VARIABLES
    pc,               \* where main() stands
    text,             \* dbs_and_collections_string
    lines,            \* the lines the parse loop iterates over
    li,               \* the index of the next line of the parse loop
    collections_dict, \* database -> collections, in insertion order
    ti,               \* the index of the next item of collections_dict
    command,          \* the command dump_database built
    dirs, files,      \* the file system
    todo,             \* the metadata files os.walk has yet to yield
    spawned,          \* every call of subprocess.run, with its outcome
    synths,           \* how many times the walk of the output tree started
    exit_code,        \* the process's exit status, once pc = "exit"
    raised            \* what ended the process

vars == <<pc, text, lines, li, collections_dict, ti, command, dirs, files, todo,
          spawned, synths, exit_code, raised>>

NoCommand == [db |-> <<>>, has_collection |-> FALSE, collection |-> <<>>,
              out |-> <<>>]

Init ==
    /\ pc = "config"
    /\ text \in SelectionFiles
    /\ lines = <<>>
    /\ li = 1
    /\ collections_dict = <<>>
    /\ ti = 1
    /\ command = NoCommand
    /\ dirs = {}
    /\ files = <<>>
    /\ todo = <<>>
    /\ spawned = <<>>
    /\ synths = 0
    /\ exit_code = 0
    /\ raised = "none"

\* exit(code), or an exception nothing catches (the interpreter exits 1).
Exit(code, why) ==
    /\ pc' = "exit"
    /\ exit_code' = code
    /\ raised' = why

\* Lines 71-107: the connection profile is complete, or the run ends.
LoadConfig ==
    /\ pc = "config"
    /\ \E complete \in BOOLEAN :
          IF complete
          THEN pc' = "read" /\ UNCHANGED <<exit_code, raised>>
          ELSE Exit(1, "exit")
    /\ UNCHANGED <<text, lines, li, collections_dict, ti, command, dirs, files, todo,
                   spawned, synths>>

\* Lines 109-116: the selection file is read, or the run ends.
ReadSelection ==
    /\ pc = "read"
    /\ \E found \in BOOLEAN :
          IF found
          THEN pc' = "layout" /\ UNCHANGED <<exit_code, raised>>
          ELSE Exit(1, "exit")
    /\ UNCHANGED <<text, lines, li, collections_dict, ti, command, dirs, files, todo,
                   spawned, synths>>

\* Line 127: the lines the parse loop iterates over.
StrippedLines(s) == splitlines(strip(s))

\* Lines 118-127: both roots are created (an OSError of either makedirs is
\* caught nowhere), and the parse loop is set up.
MakeRoots ==
    /\ pc = "layout"
    /\ \E made \in 0..2 :
          /\ dirs' = IF made = 0 THEN dirs
                     ELSE IF made = 1 THEN makedirs(dirs, output_root_dir)
                     ELSE makedirs(makedirs(dirs, output_root_dir), mirror_root_dir)
          /\ IF made = 2
             THEN /\ pc' = "parse"
                  /\ lines' = StrippedLines(text)
                  /\ UNCHANGED <<exit_code, raised>>
             ELSE Exit(1, "OSError") /\ UNCHANGED lines
    /\ UNCHANGED <<text, li, collections_dict, ti, command, files, todo,
                   spawned, synths>>

\* Lines 130-132: one (db_name, collection) pair enters collections_dict.
DbIndex(dict, db_name) == {k \in 1..Len(dict) : dict[k].db = db_name}

\* A collection already listed for the database is not appended again.
Accumulate_as_set(dict, db_name, collection) ==
    IF DbIndex(dict, db_name) = {}
    THEN Append(dict, [db |-> db_name, collections |-> <<collection>>])
    ELSE [k \in 1..Len(dict) |->
            IF /\ dict[k].db = db_name
               /\ \A i \in 1..Len(dict[k].collections) :
                     dict[k].collections[i] # collection
            THEN [dict[k] EXCEPT !.collections = Append(@, collection)]
            ELSE dict[k]]

Accumulate(dict, db_name, collection) ==
    IF DbIndex(dict, db_name) = {}
    THEN Append(dict, [db |-> db_name, collections |-> <<collection>>])
    ELSE [k \in 1..Len(dict) |->
            IF dict[k].db = db_name
            THEN [dict[k] EXCEPT !.collections = Append(@, collection)]
            ELSE dict[k]]

\* Lines 127-132: one turn of the parse loop; unpacking anything but two
\* fields raises ValueError, which nothing catches.
ParseLine ==
    /\ pc = "parse"
    /\ li <= Len(lines)
    /\ LET line == lines[li]
           fields == split(line, TAB)
       IN  IF line = <<>>
           THEN /\ li' = li + 1
                /\ UNCHANGED <<pc, collections_dict, exit_code, raised>>
           ELSE IF Len(fields) # 2
           THEN /\ Exit(1, "ValueError")
                /\ UNCHANGED <<li, collections_dict>>
           ELSE /\ collections_dict' =
                      Accumulate(collections_dict, fields[1], fields[2])
                /\ li' = li + 1
                /\ UNCHANGED <<pc, exit_code, raised>>
    /\ UNCHANGED <<text, lines, ti, command, dirs, files, todo, spawned, synths>>

\* Lines 134-135: the parse loop is over.
EndParse ==
    /\ pc = "parse"
    /\ li > Len(lines)
    /\ pc' = "targets"
    /\ UNCHANGED <<text, lines, li, collections_dict, ti, command, dirs, files, todo,
                   spawned, synths, exit_code, raised>>

(***************************************************************************)
(* dump_database                                                           *)
(***************************************************************************)
\* Lines 20-25 and 29-35: the two shapes of the command.
DatabaseCommand(db_name, out) ==
    [db |-> db_name, has_collection |-> FALSE, collection |-> <<>>, out |-> out]

CollectionCommand(db_name, collection, out) ==
    [db |-> db_name, has_collection |-> TRUE, collection |-> collection,
     out |-> out]

\* Lines 28-35: each turn of the loop assigns command; nothing runs in it.
RECURSIVE CollectionLoop(_, _, _, _)
CollectionLoop(db_name, collections, out, cmd) ==
    IF collections = <<>> THEN cmd
    ELSE CollectionLoop(db_name, Tail(collections), out,
                        CollectionCommand(db_name, Head(collections), out))

\* Lines 18-35: the command that reaches subprocess.run.
BuildCommand(db_name, collections, out) ==
    IF collections = <<>>
    THEN DatabaseCommand(db_name, out)
    ELSE CollectionLoop(db_name, collections, out, NoCommand)

\* Lines 137-138, 12-35: the next item of collections_dict enters
\* dump_database, which creates its two directories and builds its command.
DumpDatabaseEnter ==
    /\ pc = "targets"
    /\ ti <= Len(collections_dict)
    /\ LET target == collections_dict[ti]
       IN  /\ dirs' = makedirs(makedirs(dirs, output_root_dir), mirror_root_dir)
           /\ command' = BuildCommand(target.db, target.collections,
                                      output_root_dir)
    /\ pc' = "run"
    /\ UNCHANGED <<text, lines, li, collections_dict, ti, files, todo, spawned,
                   synths, exit_code, raised>>

(***************************************************************************)
(* The dump utility is a program outside this repository.  A run of it     *)
(* writes, under the directory --out names, a data file and (for all or    *)
(* for none) a metadata file for each collection it dumps: the one         *)
(* --collection names, or any of the database's when it names none; in     *)
(* the database's directory or one below it.                               *)
(***************************************************************************)
DbCollections == {<<"x">>, <<"y">>}
SubDir == <<"s">>

ToolDirs(cmd) == {join(cmd.out, cmd.db), join(join(cmd.out, cmd.db), SubDir)}

ToolCollections(cmd) ==
    IF cmd.has_collection /\ cmd.collection # <<>>
    THEN {cmd.collection}
    ELSE DbCollections

ToolWrites(d, W, data, meta) ==
    LET P == {join(d, c \o MetadataSuffix) : c \in (IF meta THEN W ELSE {})}
             \cup {join(d, c \o BsonSuffix) : c \in W}
    IN  [p \in P |->
            IF endswith(basename(p), MetadataSuffix) THEN MetaBytes ELSE data]

DumpWrites(cmd) ==
    {ToolWrites(d, W, data, meta) :
        d \in ToolDirs(cmd), W \in SUBSET ToolCollections(cmd),
        data \in DataBytes, meta \in BOOLEAN}

Overlay(new, old) ==
    [p \in (DOMAIN new) \cup (DOMAIN old) |->
        IF p \in DOMAIN new THEN new[p] ELSE old[p]]

RECURSIVE MakeAll(_, _)
MakeAll(ds, ps) ==
    IF ps = {} THEN ds
    ELSE LET p == CHOOSE q \in ps : TRUE
         IN  MakeAll(makedirs(ds, p), ps \ {p})

\* Line 44: the files the walk of top copies.
IsMetadata(p) == endswith(basename(p), MetadataSuffix)
MetadataFiles(fs, top) == {p \in DOMAIN fs : IsUnder(p, top) /\ IsMetadata(p)}

\* Line 42: os.walk is top-down: a directory's files, then each of its
\* subdirectories in turn; the order within a directory is the system's.
InSubtree(p, d) == Len(p) > Len(d) /\ SubSeq(p, 1, Len(d)) = d

WalkOrders(S) ==
    LET n == Cardinality(S)
        ds == UNION {{SubSeq(p, 1, k) : k \in 0..(Len(p) - 1)} : p \in S}
    IN  {w \in [1..n -> S] :
            /\ \A i, j \in 1..n : i # j => w[i] # w[j]
            /\ \A i, j \in 1..n :
                  i < j => ~ IsUnder(dirname(w[i]), dirname(w[j]))
            /\ \A d \in ds : \A i, j, k \in 1..n :
                  (i < k /\ k < j /\ InSubtree(w[i], d) /\ InSubtree(w[j], d))
                      => InSubtree(w[k], d)}

\* subprocess.run without check=True: a non-zero exit status raises
\* nothing and the walk starts all the same.
AfterRun_unchecked(kind) ==
    IF kind \in {"ok", "nonzero"}
    THEN /\ pc' = "walk"
         /\ synths' = synths + 1
         /\ todo' \in WalkOrders(MetadataFiles(files', output_root_dir))
         /\ UNCHANGED <<exit_code, raised>>
    ELSE /\ Exit(1, "Exception")
         /\ UNCHANGED <<synths, todo>>

\* The walk left out of dump_database: it returns straight after the dump.
AfterRun_no_walk(kind) ==
    IF kind = "ok"
    THEN /\ pc' = "walk"
         /\ UNCHANGED <<synths, todo, exit_code, raised>>
    ELSE /\ Exit(1, IF kind = "nonzero" THEN "CalledProcessError"
                                        ELSE "Exception")
         /\ UNCHANGED <<synths, todo>>

\* Lines 39-42 and 53-58: after subprocess.run.  Exit status zero: the walk
\* of the output tree starts.  CalledProcessError, or the utility could not
\* be started (the handler of line 56): exit(1).
AfterRun(kind) ==
    IF kind = "ok"
    THEN /\ pc' = "walk"
         /\ synths' = synths + 1
         /\ todo' \in WalkOrders(MetadataFiles(files', output_root_dir))
         /\ UNCHANGED <<exit_code, raised>>
    ELSE /\ Exit(1, IF kind = "nonzero" THEN "CalledProcessError"
                                        ELSE "Exception")
         /\ UNCHANGED <<synths, todo>>

\* Lines 37-58: subprocess.run(command, check=True) starts the utility and
\* waits for it: it cannot be started, exits non-zero, or exits zero.
RunDump ==
    /\ pc = "run"
    /\ \E kind \in {"ok", "nonzero", "nolaunch"} :
       \E w \in (IF kind = "nolaunch" THEN {<<>>} ELSE DumpWrites(command)) :
          /\ spawned' = Append(spawned, [command |-> command, outcome |-> kind])
          /\ files' = Overlay(w, files)
          /\ dirs' = MakeAll(dirs, {dirname(p) : p \in DOMAIN w})
          /\ AfterRun(kind)
    /\ UNCHANGED <<text, lines, li, collections_dict, ti, command>>

\* The relative path dropped: every copy lands in the mirror root itself.
DstPath_flat(src_path) == join(mirror_root_dir, basename(src_path))

\* Lines 45-49: where a metadata file and its empty data file go.
DstPath(src_path) ==
    mirror_root_dir \o relpath(src_path, output_root_dir)

BsonPath(dst_path) ==
    join(dirname(dst_path), splitext_root(basename(dst_path)) \o BsonSuffix)

\* The error of a pair is noted and the walk goes on with the next file.
AfterPair_continue(fails) ==
    /\ todo' = Tail(todo)
    /\ raised' = IF fails = "none" THEN raised ELSE "Exception"
    /\ UNCHANGED <<pc, exit_code>>

\* Lines 43, 56-58: the pair is written and the walk goes on, or a call
\* raised and the handler of line 56 ends the process.
AfterPair(fails) ==
    IF fails = "none"
    THEN todo' = Tail(todo) /\ UNCHANGED <<pc, exit_code, raised>>
    ELSE Exit(1, "Exception") /\ UNCHANGED todo

\* Lines 43-51 and 56-58: one metadata file of the walk.  Any of the four
\* calls may raise.
MirrorPair ==
    /\ pc = "walk"
    /\ todo # <<>>
    /\ LET src_path == Head(todo)
           dst_path == DstPath(src_path)
           bson_path == BsonPath(dst_path)
       IN  \E fails \in {"none", "makedirs", "copy2", "open", "write"} :
              /\ fails = "makedirs" => dirname(dst_path) \notin dirs
              /\ dirs' = IF fails = "makedirs" THEN dirs
                         ELSE makedirs(dirs, dirname(dst_path))
              /\ files' =
                    IF fails \in {"makedirs", "copy2"} THEN files
                    ELSE IF fails = "open"
                    THEN Overlay(dst_path :> files[src_path], files)
                    ELSE IF fails = "write"
                    THEN Overlay(dst_path :> files[src_path] @@ bson_path :> <<>>,
                                 files)
                    ELSE Overlay(dst_path :> files[src_path]
                                    @@ bson_path :> bson_dumps_empty,
                                 files)
              /\ AfterPair(fails)
    /\ UNCHANGED <<text, lines, li, collections_dict, ti, command, spawned, synths>>

\* Line 59: the walk is over and dump_database returns.
DumpDatabaseReturn ==
    /\ pc = "walk"
    /\ todo = <<>>
    /\ pc' = "targets"
    /\ ti' = ti + 1
    /\ UNCHANGED <<text, lines, li, collections_dict, command, dirs, files, todo,
                   spawned, synths, exit_code, raised>>

\* Line 140: every database is dumped; main returns and the process exits 0.
Finish ==
    /\ pc = "targets"
    /\ ti > Len(collections_dict)
    /\ Exit(0, "none")
    /\ UNCHANGED <<text, lines, li, collections_dict, ti, command, dirs, files, todo,
                   spawned, synths>>

Next ==
    \/ LoadConfig
    \/ ReadSelection
    \/ MakeRoots
    \/ ParseLine
    \/ EndParse
    \/ DumpDatabaseEnter
    \/ RunDump
    \/ MirrorPair
    \/ DumpDatabaseReturn
    \/ Finish

Spec == Init /\ [][Next]_vars

(***************************************************************************)
(* The properties.                                                         *)
(***************************************************************************)
Done == pc = "exit" /\ exit_code = 0

\* The items of collections_dict whose call of dump_database has run its
\* command successfully.
Dumped == {k \in 1..Len(collections_dict) : k < ti \/ (k = ti /\ pc = "walk")}

IsCommandOf(e, db_name) == e.command.db = db_name
SpawnedFor(db_name) ==
    SelectSeq(spawned, LAMBDA e : IsCommandOf(e, db_name))

\* The lines of the selection file as written, before any stripping.
RawLines == split(text, NL)
TabCount(line) == Len(split(line, TAB)) - 1
WellFormed == \A i \in 1..Len(RawLines) :
                  RawLines[i] # <<>> => TabCount(RawLines[i]) = 1

\* C1: a call of dump_database for a database with K >= 1 collections
\* spawns exactly K dump processes, the i-th carrying the i-th collection.
C1_OneProcessPerCollection ==
    \A k \in Dumped :
        LET cs == collections_dict[k].collections
            ps == SpawnedFor(collections_dict[k].db)
        IN  (/\ Len(cs) >= 1
             /\ \A i \in 1..Len(cs) : cs[i] # <<>>
             /\ \A i, j \in 1..Len(cs) : i # j => cs[i] # cs[j]) =>
               /\ Len(ps) = Len(cs)
               /\ \A i \in 1..Len(cs) :
                     /\ ps[i].command.has_collection
                     /\ ps[i].command.collection = cs[i]

\* The databases every line of which carries the all-collections marker
\* (an empty collection field).
IsMarkerLine(line) ==
    /\ TabCount(line) = 1
    /\ split(line, TAB)[1] # <<>>
    /\ split(line, TAB)[2] = <<>>

MarkerDbs ==
    {db \in {split(RawLines[i], TAB)[1] : i \in 1..Len(RawLines)} :
        /\ db # <<>>
        /\ \E i \in 1..Len(RawLines) :
              IsMarkerLine(RawLines[i]) /\ split(RawLines[i], TAB)[1] = db
        /\ \A i \in 1..Len(RawLines) :
              split(RawLines[i], TAB)[1] = db => IsMarkerLine(RawLines[i])}

\* C2: a line "db<TAB>" of a well-formed file, wherever it stands, is no
\* selection error; it resolves to a target with no collections, and that
\* target's dump is one process with no collection argument.
C2_MarkerIsWholeDatabase ==
    /\ (WellFormed /\ MarkerDbs # {}) => raised # "ValueError"
    /\ pc \in {"targets", "run", "walk"} =>
          \A db \in MarkerDbs :
             \E k \in 1..Len(collections_dict) :
                /\ collections_dict[k].db = db
                /\ collections_dict[k].collections = <<>>
    /\ \A k \in Dumped :
          collections_dict[k].db \in MarkerDbs =>
             LET ps == SpawnedFor(collections_dict[k].db)
             IN  Len(ps) = 1 /\ ~ ps[1].command.has_collection

\* The pairs the parse loop has unpacked so far.
NonBlank(line) == line # <<>>
Parsed == LET sel == SelectSeq(SubSeq(lines, 1, li - 1), NonBlank)
          IN  [i \in 1..Len(sel) |-> split(sel[i], TAB)]

FirstPos(db) ==
    CHOOSE i \in 1..Len(Parsed) :
        /\ Parsed[i][1] = db
        /\ \A j \in 1..(i - 1) : Parsed[j][1] # db

IsPairOf(pr, db) == pr[1] = db
FieldsOf(db) ==
    LET prs == SelectSeq(Parsed, LAMBDA pr : IsPairOf(pr, db))
    IN  [i \in 1..Len(prs) |-> prs[i][2]]

RECURSIVE Distinct(_, _)
Distinct(seq, seen) ==
    IF seq = <<>> THEN <<>>
    ELSE IF Head(seq) \in seen THEN Distinct(Tail(seq), seen)
    ELSE <<Head(seq)>> \o Distinct(Tail(seq), seen \cup {Head(seq)})

TargetsInFirstSeenOrder ==
    /\ \A k, m \in 1..Len(collections_dict) :
          k # m => collections_dict[k].db # collections_dict[m].db
    /\ {collections_dict[k].db : k \in 1..Len(collections_dict)}
          = {Parsed[i][1] : i \in 1..Len(Parsed)}
    /\ \A k, m \in 1..Len(collections_dict) :
          k < m => FirstPos(collections_dict[k].db)
                      < FirstPos(collections_dict[m].db)

\* C3 as stated: after the resolution of a well-formed file there is one
\* target per distinct database, in first-seen order, and a target's
\* collections are the distinct names given for it, in first-seen order.
C3_CollectionsAreASet ==
    (pc = "targets" /\ WellFormed) =>
        /\ TargetsInFirstSeenOrder
        /\ \A k \in 1..Len(collections_dict) :
              collections_dict[k].collections
                 = Distinct(FieldsOf(collections_dict[k].db), {})

\* C3, amended: at every point of the resolution there is one target per
\* distinct database unpacked so far, in first-seen order, and a target's
\* collections are all the collection fields given for it, in the order of
\* their lines, a repeated one as often as it is given.
C3_CollectionsInInputOrder ==
    /\ TargetsInFirstSeenOrder
    /\ \A k \in 1..Len(collections_dict) :
          collections_dict[k].collections = FieldsOf(collections_dict[k].db)

C3_Witness ==
    /\ pc = "targets"
    /\ Len(collections_dict) = 2
    /\ \E k \in 1..2 :
          LET cs == collections_dict[k].collections
          IN  Len(cs) = 2 /\ cs[1] = cs[2] /\ cs[1] # <<>>

\* C4: a selection file with a line of zero tabs or of more than one (and
\* of more than whitespace), wherever the line stands, never has a dump
\* process spawned and never ends with exit status 0.
HasMalformedLine ==
    \E i \in 1..Len(RawLines) :
        /\ \E j \in 1..Len(RawLines[i]) : RawLines[i][j] \notin Whitespace
        /\ TabCount(RawLines[i]) # 1

C4_MalformedLineIsFatal ==
    HasMalformedLine => (spawned = <<>> /\ ~ Done)

\* C5: after a successful run every metadata file under the output root has,
\* in the mirror, a copy at the same relative path with the same bytes, and
\* beside it the data file of its pair (the metadata extension replaced by
\* the data extension) holding the encoding of an empty document.
PairDataName(name) ==
    SubSeq(name, 1, Len(name) - Len(MetadataSuffix)) \o BsonSuffix

C5_MirrorPairs ==
    Done =>
        \A p \in MetadataFiles(files, output_root_dir) :
            LET dst == mirror_root_dir \o relpath(p, output_root_dir)
                data == join(dirname(dst), PairDataName(basename(dst)))
            IN  /\ dst \in DOMAIN files
                /\ files[dst] = files[p]
                /\ data \in DOMAIN files
                /\ files[data] = bson_dumps_empty

\* The files and the directories below a root, by their relative paths.
FilesUnder(top) == {p \in DOMAIN files : IsUnder(p, top)}
RelDirsUnder(top) == {relpath(d, top) : d \in {e \in dirs : IsUnder(e, top)}}

DumpFailed == \E i \in 1..Len(spawned) : spawned[i].outcome # "ok"

\* C6 as stated: once a dump process has failed or could not be started,
\* nothing is or ever was written under the mirror root.
C6_FailureLeavesMirrorEmpty ==
    DumpFailed => FilesUnder(mirror_root_dir) = {}

\* C6, amended: once a dump process has failed or could not be started, the
\* process has exited non-zero; the failed call is the last call of the
\* utility there is, and it is the failing target's call, so no later target
\* is attempted; and no walk of the output tree was started for the failing
\* target or after it: every walk there was belongs to an earlier target
\* and was finished, and only those wrote under the mirror root.
C6_FailureStopsTheRun ==
    DumpFailed =>
        /\ pc = "exit" /\ exit_code = 1
        /\ \A i \in 1..Len(spawned) :
              spawned[i].outcome # "ok" <=> i = Len(spawned)
        /\ spawned[Len(spawned)].command.db = collections_dict[ti].db
        /\ synths = ti - 1
        /\ todo = <<>>
        /\ (ti = 1 => FilesUnder(mirror_root_dir) = {})

C6_Witness ==
    /\ DumpFailed
    /\ ti = 2
    /\ Len(collections_dict) = 2
    /\ FilesUnder(mirror_root_dir) # {}

Prefixes(p) == {SubSeq(p, 1, k) : k \in 1..Len(p)}

\* C7: the two roots are different directories; whenever a dump process is
\* about to be spawned or has been, both exist with all their ancestors;
\* and a run in which a root could not be created spawns none.
C7_RootsBeforeFirstDump ==
    /\ output_root_dir # mirror_root_dir
    /\ (pc = "run" \/ spawned # <<>>) =>
          Prefixes(output_root_dir) \cup Prefixes(mirror_root_dir) \subseteq dirs
    /\ raised = "OSError" => spawned = <<>>

C7_Witness ==
    /\ pc = "run"
    /\ spawned = <<>>
    /\ {output_root_dir, mirror_root_dir} \subseteq dirs

\* C8 as stated: the mirror is written only after every dump process of the
\* run has finished: once a file is under the mirror root, no step spawns a
\* dump process.
C8_NoDumpAfterMirrorWrite ==
    [][FilesUnder(mirror_root_dir) # {} => spawned' = spawned]_vars

OkCount == Cardinality({i \in 1..Len(spawned) : spawned[i].outcome = "ok"})

\* C8, amended: the walk that writes the mirror starts once per target,
\* straight after that target's dump process exited zero and before the
\* next target's process is spawned: there are as many walks as successful
\* dump processes, a process is spawned only when every earlier target's
\* walk is over, and a successful run of n targets has made n walks.
C8_OneSynthesisPerTarget ==
    /\ synths = OkCount
    /\ pc \in {"targets", "run"} => (synths = ti - 1 /\ todo = <<>>)
    /\ pc = "walk" => synths = ti
    /\ Done => synths = Len(collections_dict)

C8_Witness ==
    /\ pc = "run"
    /\ ti = 2
    /\ synths = 1
    /\ FilesUnder(mirror_root_dir) # {}

\* The run ended in the walk: the last dump process exited zero and a call
\* of lines 45-51 raised.
MirrorFailed ==
    /\ raised = "Exception"
    /\ spawned # <<>>
    /\ spawned[Len(spawned)].outcome = "ok"

Range(seq) == {seq[i] : i \in 1..Len(seq)}

IsMirrored(p) ==
    /\ DstPath(p) \in DOMAIN files
    /\ files[DstPath(p)] = files[p]
    /\ BsonPath(DstPath(p)) \in DOMAIN files
    /\ files[BsonPath(DstPath(p))] = bson_dumps_empty

\* C9 as stated: when writing one pair fails, every other metadata file
\* under the output root still has its copy and its empty data file.
C9_OtherPairsStillWritten ==
    MirrorFailed =>
        \A p \in MetadataFiles(files, output_root_dir) \ {Head(todo)} :
            IsMirrored(p)

\* C9, amended: when writing one pair fails, the walk stops there and the
\* process exits non-zero at once: the files the walk yielded before have
\* their pairs, the files it had yet to yield are not visited (in the first
\* target's walk they have nothing in the mirror), and no later target is
\* dumped.
C9_FailureStopsTheWalk ==
    MirrorFailed =>
        /\ pc = "exit" /\ exit_code = 1
        /\ todo # <<>>
        /\ \A p \in MetadataFiles(files, output_root_dir) \ Range(todo) :
              IsMirrored(p)
        /\ ti = 1 => \A p \in Range(Tail(todo)) :
                        /\ DstPath(p) \notin DOMAIN files
                        /\ BsonPath(DstPath(p)) \notin DOMAIN files
        /\ spawned[Len(spawned)].command.db = collections_dict[ti].db

C9_Witness ==
    /\ MirrorFailed
    /\ Len(todo) = 2
    /\ MetadataFiles(files, output_root_dir) \ Range(todo) # {}
    /\ DstPath(Head(todo)) \in DOMAIN files
    /\ BsonPath(DstPath(Head(todo))) \notin DOMAIN files

\* The directories below the output root that hold a metadata file.
MetadataDirs ==
    {relpath(dirname(p), output_root_dir) :
        p \in MetadataFiles(files, output_root_dir)} \ {<<>>}

OnlyPairsInMirror ==
    \A q \in FilesUnder(mirror_root_dir) :
        \E p \in MetadataFiles(files, output_root_dir) :
            q \in {DstPath(p), BsonPath(DstPath(p))}

\* C10 as stated: after a successful run the directories below the mirror
\* root are exactly the directories below the output root that hold a
\* metadata file, and the mirror holds no file but copies and their data
\* files.
C10_MirrorDirsAreMetadataDirs ==
    Done =>
        /\ RelDirsUnder(mirror_root_dir) = MetadataDirs
        /\ OnlyPairsInMirror

\* C10, amended: after a successful run the directories below the mirror
\* root are exactly the directories below the output root that hold a
\* metadata file, and the ancestors of those below the root; and the mirror
\* holds no file but copies and their data files.
C10_MirrorDirsAreMetadataDirsAndAncestors ==
    Done =>
        /\ RelDirsUnder(mirror_root_dir)
              = UNION {Prefixes(d) : d \in MetadataDirs}
        /\ OnlyPairsInMirror

C10_Witness ==
    /\ Done
    /\ \E d \in RelDirsUnder(mirror_root_dir) : d \notin MetadataDirs
    /\ \E d \in RelDirsUnder(output_root_dir) :
          d \notin RelDirsUnder(mirror_root_dir)

====
